---- MODULE Spec2Model ----
(***************************************************************************)
(* A model of the Dgraph HTTP gateway (package alpha: query, mutation,     *)
(* commit and alter handlers) and of the GraphQL schema compiler (package  *)
(* schema: NewHandler, parentInterface, DgraphMapping, genDgSchema).       *)
(*                                                                         *)
(* The gateway is stateless: every handler action serves one request from  *)
(* a bounded set, with the outcome of the external engine chosen           *)
(* nondeterministically, and leaves the request, the response writer and   *)
(* the log of engine calls in the state (specification Spec).             *)
(*                                                                         *)
(* The schema compiler is followed stage by stage through NewHandler, on   *)
(* a bounded set of inputs that carry the verdicts of the external parser  *)
(* and validators; DgraphMapping is applied to a bounded set of complete   *)
(* schemas (specification SpecSchema).                                     *)
(***************************************************************************)
EXTENDS Integers, Sequences, FiniteSets, TLC

(***************************************************************************)
(* The fields of the records of this model.  TLC keeps the fields of a     *)
(* record in the order in which it first met their names; every record     *)
(* below lists its fields in the order they have here, so that the records *)
(* TLC builds are in normal form from the start.                           *)
(***************************************************************************)
RecordFields ==
    [handler |-> 0, method |-> 0, query |-> 0, enc |-> 0, stream |-> 0, ctype |-> 0,
     body |-> 0,
     debug |-> 0, timeout |-> 0, startTs |-> 0, be |-> 0, ro |-> 0, commitNow |-> 0,
     abort |-> 0,
     text |-> 0, json |-> 0, rdf |-> 0, list |-> 0, map |-> 0, op |-> 0,
     ok |-> 0, err |-> 0, val |-> 0, type |-> 0, offset |-> 0, line |-> 0,
     character |-> 0, ms |-> 0, nquads |-> 0, set |-> 0, delete |-> 0, cond |-> 0,
     statusCode |-> 0, code |-> 0, message |-> 0, kind |-> 0, data |-> 0,
     extensions |-> 0, txn |-> 0, start_ts |-> 0, commit_ts |-> 0, keys |-> 0,
     preds |-> 0,
     w |-> 0, calls |-> 0, handled |-> 0, isNil |-> 0, response |-> 0,
     fn |-> 0, ctx |-> 0, arg |-> 0, ret |-> 0,
     Query |-> 0, Variables |-> 0, Vars |-> 0, StartTs |-> 0, BestEffort |-> 0,
     ReadOnly |-> 0, CommitNow |-> 0, Mutations |-> 0,
     SetJson |-> 0, DeleteJson |-> 0, Cond |-> 0, SetNquads |-> 0,
     Aborted |-> 0, Keys |-> 0, Preds |-> 0, Json |-> 0, cts |-> 0,
     Schema |-> 0, DropAttr |-> 0, DropAll |-> 0,
     input |-> 0, sch |-> 0,
     Name |-> 0, Kind |-> 0, BuiltIn |-> 0, Interfaces |-> 0, Fields |-> 0, Type |-> 0,
     NamedType |-> 0, Elem |-> 0, Directives |-> 0, Arguments |-> 0, Value |-> 0, Raw |-> 0,
     Definitions |-> 0, Types |-> 0, parseErr |-> 0, preErrs |-> 0, validateErr |-> 0,
     postErrs |-> 0, doc |-> 0, pc |-> 0, stages |-> 0, defns |-> 0, dgSchema |-> 0,
     typeDef |-> 0, key |-> 0, panicked |-> 0, entries |-> 0, inputTypeName |-> 0,
     inputTyp |-> 0]

VARIABLES
    req,        \* the *http.Request the last handler served
    w,          \* the http.ResponseWriter when that handler returned
    calls,      \* the engine calls made while serving req, in order
    compile,    \* the last schema compilation: input, stages run, result
    mapping,    \* the last DgraphMapping result and the schema it was built from
    position    \* the last jsonLineAndChar call: its arguments and its results

vars == <<req, w, calls, compile, mapping, position>>

-----------------------------------------------------------------------------
(* Bounds *)

MaxTs == 1          \* start timestamps in requests range over 0..MaxTs
MaxKeys == 2        \* longest conflict-key list the engine or a client sends
MaxLen == 4         \* longest generated input text handed to jsonLineAndChar

-----------------------------------------------------------------------------
(* strconv and small string helpers *)

Ok(v) == [err |-> "", val |-> v]
Fail(msg) == [err |-> msg, val |-> 0]

Char(s, i) == SubSeq(s, i, i)

HasPrefix(s, p) == Len(s) >= Len(p) /\ SubSeq(s, 1, Len(p)) = p
HasSuffix(s, p) == Len(s) >= Len(p) /\ SubSeq(s, Len(s) - Len(p) + 1, Len(s)) = p
TrimPrefix(s, p) == IF HasPrefix(s, p) THEN SubSeq(s, Len(p) + 1, Len(s)) ELSE s
TrimSuffix(s, p) == IF HasSuffix(s, p) THEN SubSeq(s, 1, Len(s) - Len(p)) ELSE s

DigitVal(c) ==
    CASE c = "0" -> 0 [] c = "1" -> 1 [] c = "2" -> 2 [] c = "3" -> 3
      [] c = "4" -> 4 [] c = "5" -> 5 [] c = "6" -> 6 [] c = "7" -> 7
      [] c = "8" -> 8 [] c = "9" -> 9
      [] c \in {"a", "A"} -> 10 [] c \in {"b", "B"} -> 11
      [] c \in {"c", "C"} -> 12 [] c \in {"d", "D"} -> 13
      [] c \in {"e", "E"} -> 14 [] c \in {"f", "F"} -> 15
      [] OTHER -> 99

RECURSIVE ParseDigits(_, _, _, _)
ParseDigits(s, i, base, acc) ==
    IF i > Len(s) THEN Ok(acc)
    ELSE LET d == DigitVal(Char(s, i)) IN
         IF d >= base THEN Fail("invalid syntax")
         ELSE ParseDigits(s, i + 1, base, acc * base + d)

\* strconv.ParseUint(value, 0, 64): the base is taken from the prefix.
ParseUint(s) ==
    IF s = "" THEN Fail("invalid syntax")
    ELSE IF Char(s, 1) = "0"
         THEN IF Len(s) >= 3 /\ Char(s, 2) \in {"b", "B"} THEN ParseDigits(s, 3, 2, 0)
              ELSE IF Len(s) >= 3 /\ Char(s, 2) \in {"o", "O"} THEN ParseDigits(s, 3, 8, 0)
              ELSE IF Len(s) >= 3 /\ Char(s, 2) \in {"x", "X"} THEN ParseDigits(s, 3, 16, 0)
              ELSE ParseDigits(s, 2, 8, 0)
         ELSE ParseDigits(s, 1, 10, 0)

\* strconv.ParseBool
ParseBool(s) ==
    IF s \in {"1", "t", "T", "TRUE", "true", "True"} THEN [err |-> "", val |-> TRUE]
    ELSE IF s \in {"0", "f", "F", "FALSE", "false", "False"} THEN [err |-> "", val |-> FALSE]
    ELSE [err |-> "invalid syntax", val |-> FALSE]

\* time.ParseDuration on the forms the requests carry: "0", or a decimal
\* number of seconds "<n>s"; the value is in seconds.
ParseDuration(s) ==
    IF s = "0" THEN Ok(0)
    ELSE IF Len(s) >= 2 /\ HasSuffix(s, "s")
            /\ ParseDigits(TrimSuffix(s, "s"), 1, 10, 0).err = ""
         THEN Ok(ParseDigits(TrimSuffix(s, "s"), 1, 10, 0).val)
         ELSE Fail("invalid duration")

LowerChar(c) ==
    CASE c = "A" -> "a" [] c = "B" -> "b" [] c = "C" -> "c" [] c = "D" -> "d"
      [] c = "E" -> "e" [] c = "F" -> "f" [] c = "G" -> "g" [] c = "H" -> "h"
      [] c = "I" -> "i" [] c = "J" -> "j" [] c = "K" -> "k" [] c = "L" -> "l"
      [] c = "M" -> "m" [] c = "N" -> "n" [] c = "O" -> "o" [] c = "P" -> "p"
      [] c = "Q" -> "q" [] c = "R" -> "r" [] c = "S" -> "s" [] c = "T" -> "t"
      [] c = "U" -> "u" [] c = "V" -> "v" [] c = "W" -> "w" [] c = "X" -> "x"
      [] c = "Y" -> "y" [] c = "Z" -> "z" [] OTHER -> c

RECURSIVE ToLower(_)
ToLower(s) == IF s = "" THEN "" ELSE LowerChar(Char(s, 1)) \o ToLower(SubSeq(s, 2, Len(s)))

-----------------------------------------------------------------------------
(* Request helpers of the gateway *)

Get(r, name) == r.query[name]

parseUint64(r, name) ==
    LET value == Get(r, name) IN
    IF value = "" THEN Ok(0)
    ELSE LET p == ParseUint(value) IN
         IF p.err # ""
         THEN Fail("while parsing " \o name \o " as uint64: " \o p.err)
         ELSE Ok(p.val)

parseBool(r, name) ==
    LET value == Get(r, name) IN
    IF value = "" THEN [err |-> "", val |-> FALSE]
    ELSE LET p == ParseBool(value) IN
         IF p.err # ""
         THEN [err |-> "while parsing " \o name \o " as bool: " \o p.err, val |-> FALSE]
         ELSE p

parseDuration(r, name) ==
    LET value == Get(r, name) IN
    IF value = "" THEN Ok(0)
    ELSE LET p == ParseDuration(value) IN
         IF p.err # ""
         THEN Fail("while parsing " \o name \o " as time.Duration: " \o p.err)
         ELSE p

\* Status codes of package x and net/http.
Success == "Success"
ErrorInvalidMethod == "ErrorInvalidMethod"
ErrorInvalidRequest == "ErrorInvalidRequest"
Error == "Error"
StatusOK == 200
StatusBadRequest == 400

NoBody == [kind |-> "none"]

\* The writer a handler starts with: nothing written, the transport status
\* still the implicit 200.
NewWriter == [body |-> NoBody, statusCode |-> StatusOK, code |-> "", message |-> ""]

SetStatus(rw, code, msg) == [rw EXCEPT !.code = code, !.message = msg]

writeResponse(rw, b) == [rw EXCEPT !.body = b]

\* a method check that lets GET through as well
allowedWithGet(method) == method \in {"POST", "PUT", "GET"}

allowed(method) == method = "POST" \/ method = "PUT"

\* commonHandler: .handled is its return value, .w the writer it leaves.
commonHandler(rw, r) ==
    IF r.method = "OPTIONS" THEN [w |-> rw, handled |-> TRUE]
    ELSE IF ~allowed(r.method)
         THEN [w |-> SetStatus([rw EXCEPT !.statusCode = StatusBadRequest],
                               ErrorInvalidMethod, "Invalid method"),
               handled |-> TRUE]
         ELSE [w |-> rw, handled |-> FALSE]

\* readRequest: .isNil tells that it returned nil, .body is the slice otherwise.
\* r.stream tells whether the body stream can be read (and un-gzipped).
readRequest(rw, r) ==
    IF r.enc # "" /\ r.enc # "identity"
    THEN IF r.enc = "gzip"
         THEN IF r.stream = "bad"
              THEN [body |-> r.body, w |-> SetStatus(rw, Error, "Unable to create decompressor"),
                    isNil |-> TRUE]
              ELSE [body |-> r.body, w |-> rw, isNil |-> FALSE]
         ELSE [body |-> r.body, w |-> SetStatus(rw, ErrorInvalidRequest, "Unsupported content encoding"),
               isNil |-> TRUE]
    ELSE IF r.stream = "bad"
         THEN [body |-> r.body, w |-> SetStatus(rw, ErrorInvalidRequest, "unexpected EOF"),
               isNil |-> TRUE]
         ELSE [body |-> r.body, w |-> rw, isNil |-> FALSE]

\* jsonLineAndChar: i is the 0-based byte index of the range loop.
RECURSIVE lineAndCharLoop(_, _, _, _, _)
lineAndCharLoop(input, offset, i, line, character) ==
    IF i >= Len(input) THEN [err |-> "", line |-> line, character |-> character]
    ELSE LET isLf == Char(input, i + 1) = "\n"
             line2 == IF isLf THEN line + 1 ELSE line
             char2 == (IF isLf THEN 0 ELSE character) + 1
         IN IF i = offset
            THEN [err |-> "", line |-> line2, character |-> char2]
            ELSE lineAndCharLoop(input, offset, i + 1, line2, char2)

jsonLineAndChar(input, offset) ==
    IF offset > Len(input) \/ offset < 0
    THEN [err |-> "Couldn't find offset " \o ToString(offset) \o " within the input.", line |-> 0,
          character |-> 0]
    ELSE lineAndCharLoop(input, offset, 0, 1, 0)

\* convertJSONError: err is the error of json.Unmarshal, a record with the
\* error's dynamic type, its byte offset and its text.
convertJSONError(input, err) ==
    IF err.type \in {"SyntaxError", "UnmarshalTypeError"}
    THEN LET lc == jsonLineAndChar(input, err.offset) IN
         IF lc.err # "" THEN err.text
         ELSE "Error parsing JSON at line " \o ToString(lc.line) \o ", character "
              \o ToString(lc.character) \o ": " \o err.text \o "\n"
    ELSE err.text

\* strconv.Unquote of a JSON string token without escape sequences.
Unquote(s) ==
    IF Len(s) >= 2 /\ Char(s, 1) = "\"" /\ Char(s, Len(s)) = "\""
    THEN [err |-> "", val |-> SubSeq(s, 2, Len(s) - 1)]
    ELSE [err |-> "invalid syntax", val |-> ""]

-----------------------------------------------------------------------------
(* sort.Strings: byte-wise lexicographic order *)

Ord(c) ==
    CASE c = "a" -> 97 [] c = "b" -> 98 [] c = "c" -> 99 [] c = "d" -> 100
      [] c = "e" -> 101 [] c = "f" -> 102 [] c = "g" -> 103 [] c = "h" -> 104
      [] c = "i" -> 105 [] c = "j" -> 106 [] c = "k" -> 107 [] c = "l" -> 108
      [] c = "m" -> 109 [] c = "n" -> 110 [] c = "o" -> 111 [] c = "p" -> 112
      [] c = "q" -> 113 [] c = "r" -> 114 [] c = "s" -> 115 [] c = "t" -> 116
      [] c = "u" -> 117 [] c = "v" -> 118 [] c = "w" -> 119 [] c = "x" -> 120
      [] c = "y" -> 121 [] c = "z" -> 122 [] OTHER -> 0

RECURSIVE StrLess(_, _)
StrLess(s, t) ==
    IF t = "" THEN FALSE
    ELSE IF s = "" THEN TRUE
    ELSE IF Ord(Char(s, 1)) # Ord(Char(t, 1)) THEN Ord(Char(s, 1)) < Ord(Char(t, 1))
    ELSE StrLess(SubSeq(s, 2, Len(s)), SubSeq(t, 2, Len(t)))

RECURSIVE Insert(_, _)
Insert(sorted, k) ==
    IF sorted = <<>> THEN <<k>>
    ELSE IF StrLess(k, Head(sorted)) THEN <<k>> \o sorted
    ELSE <<Head(sorted)>> \o Insert(Tail(sorted), k)

RECURSIVE SortStrings(_)
SortStrings(keys) ==
    IF keys = <<>> THEN <<>> ELSE Insert(SortStrings(Tail(keys)), Head(keys))

-----------------------------------------------------------------------------
(* The handlers.  Each is the set of outcomes of serving r: one outcome    *)
(* where the handler returns before the engine is called, one per possible *)
(* engine outcome where it calls the engine.  An outcome is the writer and *)
(* the engine calls made.                                                  *)

Res(rw, cs) == [w |-> rw, calls |-> cs]

\* What edgraph.Server.Query can return: an error, or a response with the
\* transaction context and the result payload.
EngineErrs == {"Transaction is too old", "context deadline exceeded"}
KeyUniverse == {"ab", "b"}
RECURSIVE SeqsUpTo(_, _)
SeqsUpTo(S, n) ==
    IF n = 0 THEN {<<>>}
    ELSE LET shorter == SeqsUpTo(S, n - 1) IN
         shorter \cup {Append(q, x) : q \in {t \in shorter : Len(t) = n - 1}, x \in S}
KeyLists == SeqsUpTo(KeyUniverse, MaxKeys)
PredLists == {<<>>, <<"name", "age">>}

QueryResponses ==
    [err : {""}, Keys : {<<>>}, Preds : {<<>>}, Json : {"{}", "{\"q\":[]}"}]
QueryOutcomes ==
    QueryResponses \cup [err : EngineErrs, Keys : {<<>>}, Preds : {<<>>}, Json : {""}]

\* readFlags with a best-effort flag that does not force read-only
readFlagsBestEffortOnly(req0, isBestEffort, isReadOnly) ==
    LET req1 == IF isBestEffort THEN [req0 EXCEPT !.BestEffort = TRUE] ELSE req0
        req2 == IF isReadOnly THEN [req1 EXCEPT !.ReadOnly = TRUE] ELSE req1
    IN IF req0.StartTs = 0 THEN req2 ELSE req0

\* readFlags without the read-only flag
readFlagsNoReadOnly(req0, isBestEffort, isReadOnly) ==
    LET req1 == IF isBestEffort
                THEN [req0 EXCEPT !.BestEffort = TRUE, !.ReadOnly = TRUE]
                ELSE req0
    IN IF req0.StartTs = 0 THEN req1 ELSE req0

\* The best-effort / read-only derivation of queryHandler: the flags are read
\* only for a request without a start timestamp.
readFlags(req0, isBestEffort, isReadOnly) ==
    LET req1 == IF isBestEffort
                THEN [req0 EXCEPT !.BestEffort = TRUE, !.ReadOnly = TRUE]
                ELSE req0
        req2 == IF isReadOnly THEN [req1 EXCEPT !.ReadOnly = TRUE] ELSE req1
    IN IF req0.StartTs = 0 THEN req2 ELSE req0

queryHandler(r) ==
    LET c == commonHandler(NewWriter, r) IN
    IF c.handled THEN {Res(c.w, <<>>)} ELSE
    LET isDebugMode == parseBool(r, "debug") IN
    IF isDebugMode.err # ""
    THEN {Res(SetStatus(c.w, ErrorInvalidRequest, isDebugMode.err), <<>>)} ELSE
    LET queryTimeout == parseDuration(r, "timeout") IN
    IF queryTimeout.err # ""
    THEN {Res(SetStatus(c.w, ErrorInvalidRequest, queryTimeout.err), <<>>)} ELSE
    LET startTs == parseUint64(r, "startTs") IN
    IF startTs.err # ""
    THEN {Res(SetStatus(c.w, ErrorInvalidRequest, startTs.err), <<>>)} ELSE
    LET rd == readRequest(c.w, r) IN
    IF rd.isNil THEN {Res(rd.w, <<>>)} ELSE
    LET contentType == ToLower(r.ctype) IN
    IF contentType = "application/json" /\ rd.body.json.err.type # "none"
    THEN {Res(SetStatus(c.w, ErrorInvalidRequest,
                        convertJSONError(rd.body.text, rd.body.json.err)), <<>>)} ELSE
    IF contentType \notin {"application/json", "application/graphql+-"}
    THEN {Res(SetStatus(c.w, ErrorInvalidRequest,
                        "Unsupported Content-Type. "
                        \o "Supported content types are application/json, application/graphql+-"),
              <<>>)} ELSE
    LET params == IF contentType = "application/json"
                  THEN [Query |-> rd.body.json.Query, Variables |-> rd.body.json.Variables]
                  ELSE [Query |-> rd.body.text, Variables |-> <<>>]
        ctx == [debug |-> isDebugMode.val, timeout |-> queryTimeout.val]
        req0 == [Query |-> params.Query, Vars |-> params.Variables, StartTs |-> startTs.val,
                 BestEffort |-> FALSE, ReadOnly |-> FALSE, CommitNow |-> FALSE,
                 Mutations |-> <<>>]
        isBestEffort == parseBool(r, "be")
        isReadOnly == parseBool(r, "ro")
    IN
    IF req0.StartTs = 0 /\ isBestEffort.err # ""
    THEN {Res(SetStatus(c.w, ErrorInvalidRequest, isBestEffort.err), <<>>)} ELSE
    IF req0.StartTs = 0 /\ isReadOnly.err # ""
    THEN {Res(SetStatus(c.w, ErrorInvalidRequest, isReadOnly.err), <<>>)} ELSE
    LET request == readFlags(req0, isBestEffort.val, isReadOnly.val)
        call(resp) == [fn |-> "Query", ctx |-> ctx, arg |-> request, ret |-> resp]
    IN
    { IF resp.err # ""
      THEN Res(SetStatus(c.w, ErrorInvalidRequest, resp.err), <<call(resp)>>)
      ELSE Res(writeResponse(c.w,
                   [kind |-> "query", data |-> resp.Json,
                    extensions |-> [txn |-> [keys |-> resp.Keys, preds |-> resp.Preds]]]),
               <<call(resp)>>)
      : resp \in QueryOutcomes }

MutationResponses ==
    [err : {""}, Keys : KeyLists, Preds : {<<"name", "age">>}, Json : {"{}"}]
    \cup [err : {""}, Keys : {<<"b", "ab">>}, Preds : {<<>>}, Json : {"{\"q\":[]}"}]
MutationOutcomes ==
    MutationResponses \cup [err : EngineErrs, Keys : {<<>>}, Preds : {<<>>}, Json : {""}]

\* ms[k] with the handler's "ok && v != nil" test: a JSON null leaves the pointer nil.
Has(ms, k) == k \in DOMAIN ms /\ ms[k] # "null"

\* json.Marshal of {code, message, uids}, with no uids assigned
MarshalledMp == "{\"code\":\"Success\",\"message\":\"Done\",\"uids\":{}}"

\* responseKeys that keeps the keys of a mutation committed at once
responseKeysKept(commitNow, sortedKeys) == sortedKeys

\* The keys of a mutation's response: the engine's, sorted by the caller, and
\* dropped when the mutation committed at once.
responseKeys(commitNow, sortedKeys) ==
    IF commitNow THEN SubSeq(sortedKeys, 1, 0) ELSE sortedKeys

mutationHandler(r) ==
    LET c == commonHandler(NewWriter, r) IN
    IF c.handled THEN {Res(c.w, <<>>)} ELSE
    LET commitNow == parseBool(r, "commitNow") IN
    IF commitNow.err # ""
    THEN {Res(SetStatus(c.w, ErrorInvalidRequest, commitNow.err), <<>>)} ELSE
    LET startTs == parseUint64(r, "startTs") IN
    IF startTs.err # ""
    THEN {Res(SetStatus(c.w, ErrorInvalidRequest, startTs.err), <<>>)} ELSE
    LET rd == readRequest(c.w, r) IN
    IF rd.isNil THEN {Res(rd.w, <<>>)} ELSE
    LET contentType == ToLower(r.ctype)
        body == rd.body
    IN
    IF contentType \notin {"application/json", "application/rdf"}
    THEN {Res(SetStatus(c.w, ErrorInvalidRequest,
                        "Unsupported Content-Type. "
                        \o "Supported content types are application/json, application/rdf"),
              <<>>)} ELSE
    IF contentType = "application/json" /\ body.json.err.type # "none"
    THEN {Res(SetStatus(c.w, ErrorInvalidRequest,
                        convertJSONError(body.text, body.json.err)), <<>>)} ELSE
    IF contentType = "application/rdf" /\ body.rdf.err # ""
    THEN {Res(SetStatus(c.w, ErrorInvalidRequest, body.rdf.err), <<>>)} ELSE
    LET ms == body.json.ms
        isJson == contentType = "application/json"
        queryText == IF isJson /\ Has(ms, "query") THEN Unquote(ms["query"])
                     ELSE [err |-> "", val |-> ""]
        condText == IF isJson /\ Has(ms, "cond") THEN Unquote(ms["cond"])
                    ELSE [err |-> "", val |-> ""]
    IN
    IF queryText.err # ""
    THEN {Res(SetStatus(c.w, ErrorInvalidRequest, queryText.err), <<>>)} ELSE
    IF condText.err # ""
    THEN {Res(SetStatus(c.w, ErrorInvalidRequest, condText.err), <<>>)} ELSE
    LET mu == IF isJson
              THEN [SetJson |-> IF Has(ms, "set") THEN ms["set"] ELSE "",
                    DeleteJson |-> IF Has(ms, "delete") THEN ms["delete"] ELSE "",
                    Cond |-> condText.val, SetNquads |-> ""]
              ELSE [SetJson |-> "", DeleteJson |-> "", Cond |-> "",
                    SetNquads |-> body.rdf.nquads]
        request == [Query |-> queryText.val, Vars |-> <<>>, StartTs |-> startTs.val,
                    BestEffort |-> FALSE, ReadOnly |-> FALSE, CommitNow |-> commitNow.val,
                    Mutations |-> <<mu>>]
        call(resp) == [fn |-> "Query", ctx |-> [debug |-> FALSE, timeout |-> 0],
                       arg |-> request, ret |-> resp]
    IN
    { IF resp.err # ""
      THEN Res(SetStatus(c.w, ErrorInvalidRequest, resp.err), <<call(resp)>>)
      ELSE LET sortedKeys == SortStrings(resp.Keys)
               sortedPreds == SortStrings(resp.Preds)
               keys == responseKeys(request.CommitNow, sortedKeys)
               l == Len(resp.Json)
               data == IF l > 2 /\ Char(resp.Json, l) = "}"
                       THEN SubSeq(resp.Json, 1, l - 1) \o ","
                            \o SubSeq(MarshalledMp, 2, Len(MarshalledMp))
                       ELSE MarshalledMp
           IN Res(writeResponse(c.w,
                      [kind |-> "mutation",
                       data |-> data,
                       extensions |-> [txn |-> [keys |-> keys, preds |-> sortedPreds]]]),
                  <<call(resp)>>)
      : resp \in MutationOutcomes }

\* What worker.CommitOverNetwork can return: a commit timestamp, or an error.
ErrAborted == "Transaction has been aborted. Please retry"
CommitOutcomes ==
    [err : {""}, cts : {MaxTs + 1}] \cup [err : {ErrAborted} \cup EngineErrs, cts : {0}]

\* handleAbort taking the engine's nil error for a completed abort
handleAbortNilDone(startTs) ==
    LET tc == [StartTs |-> startTs, Aborted |-> TRUE, Keys |-> <<>>, Preds |-> <<>>]
        call(out) == [fn |-> "CommitOverNetwork", ctx |-> [debug |-> FALSE, timeout |-> 0],
                      arg |-> tc, ret |-> out]
    IN
    { IF out.err \in {ErrAborted, ""}
      THEN [err |-> "",
            calls |-> <<call(out)>>, response |-> [code |-> Success, message |-> "Done", kind |-> "abort"]]
      ELSE [err |-> out.err, calls |-> <<call(out)>>, response |-> NoBody]
      : out \in CommitOutcomes }

\* handleAbort: the set of (response, err, calls) it can return.
handleAbort(startTs) ==
    LET tc == [StartTs |-> startTs, Aborted |-> TRUE, Keys |-> <<>>, Preds |-> <<>>]
        call(out) == [fn |-> "CommitOverNetwork", ctx |-> [debug |-> FALSE, timeout |-> 0],
                      arg |-> tc, ret |-> out]
    IN
    { IF out.err = ErrAborted
      THEN [err |-> "",
            calls |-> <<call(out)>>, response |-> [code |-> Success, message |-> "Done", kind |-> "abort"]]
      ELSE IF out.err = ""
      THEN [err |-> "transaction could not be aborted", calls |-> <<call(out)>>,
            response |-> NoBody]
      ELSE [err |-> out.err, calls |-> <<call(out)>>, response |-> NoBody]
      : out \in CommitOutcomes }

\* handleCommit calling the engine a second time when the first call fails
handleCommitRetried(startTs, reqText) ==
    LET tc == [StartTs |-> startTs, Aborted |-> FALSE, Keys |-> <<>>, Preds |-> <<>>]
        call(out) == [fn |-> "CommitOverNetwork", ctx |-> [debug |-> FALSE, timeout |-> 0],
                      arg |-> tc, ret |-> out]
    IN
    { [err |-> second.err,
       calls |-> IF first.err # "" THEN <<call(first), call(second)>> ELSE <<call(first)>>,
       response |-> NoBody]
      : first \in CommitOutcomes, second \in CommitOutcomes }

handleCommit(startTs, reqText) ==
    LET useList == reqText.list.ok
    IN
    IF ~reqText.map.ok /\ ~useList
    THEN {[err |-> reqText.map.err, calls |-> <<>>, response |-> NoBody]} ELSE
    LET tc == [StartTs |-> startTs, Aborted |-> FALSE,
               Keys |-> IF useList THEN reqText.list.val ELSE reqText.map.keys,
               Preds |-> IF useList THEN <<>> ELSE reqText.map.preds]
        call(out) == [fn |-> "CommitOverNetwork", ctx |-> [debug |-> FALSE, timeout |-> 0],
                      arg |-> tc, ret |-> out]
    IN
    { IF out.err # ""
      THEN [err |-> out.err, calls |-> <<call(out)>>, response |-> NoBody]
      ELSE [err |-> "",
            calls |-> <<call(out)>>, response |->
                [kind |-> "commit",
                 data |-> [code |-> Success, message |-> "Done"],
                 extensions |-> [txn |-> [start_ts |-> tc.StartTs, commit_ts |-> out.cts,
                                          keys |-> SubSeq(tc.Keys, 1, 0),
                                          preds |-> tc.Preds]]]]
      : out \in CommitOutcomes }

\* commitHandler without the test for a missing start timestamp
missingStartTsUnchecked(startTs) == FALSE

\* commitHandler's test for a commit without a start timestamp
missingStartTs(startTs) == startTs = 0

commitHandler(r) ==
    LET c == commonHandler(NewWriter, r) IN
    IF c.handled THEN {Res(c.w, <<>>)} ELSE
    LET startTs == parseUint64(r, "startTs") IN
    IF startTs.err # ""
    THEN {Res(SetStatus(c.w, ErrorInvalidRequest, startTs.err), <<>>)} ELSE
    IF missingStartTs(startTs.val)
    THEN {Res(SetStatus(c.w, ErrorInvalidRequest,
                        "startTs parameter is mandatory while trying to commit"), <<>>)} ELSE
    LET abort == parseBool(r, "abort") IN
    IF abort.err # ""
    THEN {Res(SetStatus(c.w, ErrorInvalidRequest, abort.err), <<>>)} ELSE
    LET rd == readRequest(c.w, r) IN
    IF ~abort.val /\ rd.isNil THEN {Res(rd.w, <<>>)} ELSE
    LET results == IF abort.val THEN handleAbort(startTs.val)
                   ELSE handleCommit(startTs.val, rd.body)
    IN
    { IF x.err # ""
      THEN Res(SetStatus(c.w, ErrorInvalidRequest, x.err), x.calls)
      ELSE Res(writeResponse(c.w, x.response), x.calls)
      : x \in results }

AlterOutcomes == {""} \cup EngineErrs

alterHandler(r) ==
    LET c == commonHandler(NewWriter, r) IN
    IF c.handled THEN {Res(c.w, <<>>)} ELSE
    LET b == readRequest(c.w, r) IN
    IF b.isNil THEN {Res(b.w, <<>>)} ELSE
    LET op == IF b.body.op.ok THEN b.body.op.val
              ELSE [Schema |-> b.body.text, DropAttr |-> "", DropAll |-> FALSE]
        call(err) == [fn |-> "Alter", ctx |-> [debug |-> FALSE, timeout |-> 0],
                      arg |-> op, ret |-> [err |-> err]]
    IN
    { IF err # ""
      THEN Res(SetStatus(c.w, Error, err), <<call(err)>>)
      ELSE Res(writeResponse(c.w,
                   [kind |-> "alter", data |-> [code |-> Success, message |-> "Done"]]),
               <<call(err)>>)
      : err \in AlterOutcomes }

-----------------------------------------------------------------------------
(* The requests the handlers are served *)

Methods == {"POST", "PUT", "GET", "OPTIONS"}
StartTsRaw == {""} \cup {ToString(n) : n \in 0..MaxTs} \cup {"x"}
BoolRaw == {"", "true", "x"}

NoJsonErr == [text |-> "", type |-> "none", offset |-> 0]
SyntaxErrorAt(n, msg) == [text |-> msg, type |-> "SyntaxError", offset |-> n]

\* Request bodies, each with what the decoder the handler applies makes of it
\* (encoding/json, jsonpb and the N-Quad grammar are outside the gateway).
GoodQueryBody ==
    [text |-> "{\"query\": \"{q}\"}",
     json |-> [err |-> NoJsonErr, Query |-> "{q}", Variables |-> <<>>]]
BadQueryBody ==
    [text |-> "{\"query\": }",
     json |-> [err |-> SyntaxErrorAt(11, "invalid character '}' looking for beginning of value"),
               Query |-> "", Variables |-> <<>>]]

\* What a request carries besides its method and its query string.
QueryEnvelope(debug, timeout, enc, stream, ctype, body) ==
    [enc |-> enc, stream |-> stream, ctype |-> ctype, body |-> body,
     debug |-> debug, timeout |-> timeout]
PlainQuery == QueryEnvelope("", "", "", "good", "application/json", GoodQueryBody)
QueryEnvelopes ==
    { PlainQuery,
      QueryEnvelope("true", "2s", "gzip", "good", "Application/JSON", GoodQueryBody),
      QueryEnvelope("", "", "identity", "good", "application/graphql+-", GoodQueryBody),
      QueryEnvelope("x", "", "", "good", "application/json", GoodQueryBody),
      QueryEnvelope("", "x", "", "good", "application/json", GoodQueryBody),
      QueryEnvelope("", "", "br", "good", "application/json", GoodQueryBody),
      QueryEnvelope("", "", "gzip", "bad", "application/json", GoodQueryBody),
      QueryEnvelope("", "", "", "bad", "application/json", GoodQueryBody),
      QueryEnvelope("", "", "", "good", "text/plain", GoodQueryBody),
      QueryEnvelope("", "", "", "good", "application/json", BadQueryBody) }

QueryRequest(m, e, ts, be, ro) ==
    [handler |-> "query", method |-> m, query |-> [debug |-> e.debug, timeout |-> e.timeout, startTs |-> ts, be |-> be,
                ro |-> ro, commitNow |-> "", abort |-> ""], enc |-> e.enc,
     stream |-> e.stream, ctype |-> e.ctype,
     body |-> e.body]

\* Every method with every combination of startTs, be and ro; and every
\* method with every envelope.
QueryRequests ==
    { QueryRequest(m, PlainQuery, ts, be, ro)
      : m \in Methods, ts \in StartTsRaw, be \in BoolRaw, ro \in BoolRaw }
    \cup { QueryRequest(m, e, "", "", "") : m \in Methods, e \in QueryEnvelopes }

JsonMutation(text, ms) ==
    [text |-> text, json |-> [err |-> NoJsonErr, ms |-> ms], rdf |-> [err |-> "", nquads |-> ""]]
SetBody == JsonMutation("{\"set\": {\"a\":\"b\"}}", [set |-> "{\"a\":\"b\"}"])
SetCommitNowBody ==
    JsonMutation("{\"set\": {\"a\":\"b\"}, \"commitNow\": true}",
                 [commitNow |-> "true", set |-> "{\"a\":\"b\"}"])
MutationBodies ==
    { SetBody, SetCommitNowBody,
      JsonMutation("{\"delete\": null, \"query\": \"{q}\", \"cond\": \"@if(c)\"}",
                   [query |-> "\"{q}\"", delete |-> "null", cond |-> "\"@if(c)\""]),
      JsonMutation("{\"query\": 5}", [query |-> "5"]),
      [text |-> "{\"set\": }",
       json |-> [err |-> SyntaxErrorAt(9, "invalid character '}' looking for beginning of value"),
                 ms |-> <<>>],
       rdf |-> [err |-> "", nquads |-> ""]] }
RdfBodies ==
    { [text |-> "{ set { _:a <p> \"b\" . } }", json |-> [err |-> NoJsonErr, ms |-> <<>>],
       rdf |-> [err |-> "", nquads |-> "_:a <p> \"b\" ."]],
      [text |-> "set _:a", json |-> [err |-> NoJsonErr, ms |-> <<>>],
       rdf |-> [err |-> "Invalid block: [set]", nquads |-> ""]] }

MutationEnvelope(enc, stream, ctype, body) ==
    [enc |-> enc, stream |-> stream, ctype |-> ctype, body |-> body]
MutationEnvelopes ==
    { MutationEnvelope("", "good", "application/json", b) : b \in MutationBodies }
    \cup { MutationEnvelope("", "good", "application/rdf", b) : b \in RdfBodies }
    \cup { MutationEnvelope("gzip", "good", "application/json", SetBody),
            MutationEnvelope("br", "good", "application/json", SetBody),
            MutationEnvelope("", "bad", "application/json", SetBody),
            MutationEnvelope("", "good", "text/plain", SetBody) }

MutationRequest(m, e, ts, cn) ==
    [handler |-> "mutation", method |-> m, query |-> [debug |-> "", timeout |-> "", startTs |-> ts, be |-> "", ro |-> "",
                commitNow |-> cn, abort |-> ""], enc |-> e.enc,
     stream |-> e.stream, ctype |-> e.ctype,
     body |-> e.body]

\* Every method with every combination of startTs and commitNow, for a body
\* without and a body with a commitNow member; and every method with every
\* envelope.
MutationRequests ==
    { MutationRequest(m, MutationEnvelope("", "good", "application/json", b), ts, cn)
      : m \in Methods, b \in {SetBody, SetCommitNowBody}, ts \in StartTsRaw, cn \in BoolRaw }
    \cup { MutationRequest(m, e, "", cn) : m \in Methods, e \in MutationEnvelopes,
                                            cn \in {"", "true"} }

\* Commit bodies: a JSON array of keys, an object {keys, preds}, null, or malformed.
ListBody(keys) ==
    [text |-> "list", list |-> [ok |-> TRUE, val |-> keys],
     map |-> [ok |-> FALSE, err |-> "json: cannot unmarshal array", keys |-> <<>>,
              preds |-> <<>>]]
MapBody(keys, preds) ==
    [text |-> "map", list |-> [ok |-> FALSE, val |-> <<>>],
     map |-> [ok |-> TRUE, err |-> "", keys |-> keys, preds |-> preds]]
NullBody ==
    [text |-> "null", list |-> [ok |-> TRUE, val |-> <<>>],
     map |-> [ok |-> TRUE, err |-> "", keys |-> <<>>, preds |-> <<>>]]
MalformedBody ==
    [text |-> "[\"a\",", list |-> [ok |-> FALSE, val |-> <<>>],
     map |-> [ok |-> FALSE, err |-> "unexpected end of JSON input", keys |-> <<>>,
              preds |-> <<>>]]
CommitBodies ==
    {ListBody(k) : k \in KeyLists}
    \cup {MapBody(k, p) : k \in {<<>>, <<"b", "ab">>}, p \in PredLists}
    \cup {NullBody, MalformedBody}

CommitEnvelope(enc, stream, body) == [enc |-> enc, stream |-> stream, body |-> body]
CommitEnvelopes ==
    { CommitEnvelope("", "good", b) : b \in CommitBodies }
    \cup { CommitEnvelope("gzip", "good", ListBody(<<"b">>)),
            CommitEnvelope("br", "good", ListBody(<<"b">>)),
            CommitEnvelope("", "bad", ListBody(<<"b">>)) }

CommitRequest(m, e, ts, ab) ==
    [handler |-> "commit", method |-> m, query |-> [debug |-> "", timeout |-> "", startTs |-> ts, be |-> "", ro |-> "",
                commitNow |-> "", abort |-> ab], enc |-> e.enc,
     stream |-> e.stream, ctype |-> "",
     body |-> e.body]

\* Every method with every combination of startTs and abort; and every
\* method with every envelope, committing or aborting transaction 1.
CommitRequests ==
    { CommitRequest(m, CommitEnvelope("", "good", ListBody(<<"b">>)), ts, ab)
      : m \in Methods, ts \in StartTsRaw, ab \in BoolRaw }
    \cup { CommitRequest(m, e, "1", ab) : m \in Methods, e \in CommitEnvelopes,
                                           ab \in {"", "true"} }

AlterBodies ==
    { [text |-> "{\"drop_all\": true}",
       op |-> [ok |-> TRUE, val |-> [Schema |-> "", DropAttr |-> "", DropAll |-> TRUE]]],
      [text |-> "name: string @index(exact) .",
       op |-> [ok |-> FALSE, val |-> [Schema |-> "", DropAttr |-> "", DropAll |-> FALSE]]] }

AlterRequests ==
    { [handler |-> "alter", method |-> m, query |-> [debug |-> "", timeout |-> "", startTs |-> "", be |-> "", ro |-> "",
                  commitNow |-> "", abort |-> ""], enc |-> e, stream |-> st, ctype |-> "",
       body |-> b]
      : m \in Methods, e \in {"", "gzip", "br"}, st \in {"good", "bad"}, b \in AlterBodies }

-----------------------------------------------------------------------------
(* The schema compiler: package schema *)

\* ast.DefinitionKind
Object == "OBJECT"
Interface == "INTERFACE"
Scalar == "SCALAR"
Enum == "ENUM"

\* The directive that asks for an index, and its argument.
searchableDirective == "searchable"
searchableArg == "by"

\* The scalar tables of the package.
scalarToDgraph(name) ==
    CASE name = "ID" -> "uid"
      [] name = "Boolean" -> "bool"
      [] name = "Int" -> "int"
      [] name = "Float" -> "float"
      [] name = "String" -> "string"
      [] name = "DateTime" -> "dateTime"
      [] OTHER -> ""
defaultSearchables(name) ==
    CASE name = "Boolean" -> "bool"
      [] name = "Int" -> "int"
      [] name = "Float" -> "float"
      [] name = "String" -> "term"
      [] name = "DateTime" -> "year"
      [] OTHER -> ""

\* ast.Type: a named type, or a list type whose NamedType is empty and whose
\* Elem (a pointer: here a sequence of length 0 or 1) is the element type.
Named(name) == [NamedType |-> name, Elem |-> <<>>]
ListOf(t) == [NamedType |-> "", Elem |-> <<t>>]
RECURSIVE TypeName(_)
TypeName(t) == IF t.NamedType # "" THEN t.NamedType ELSE TypeName(t.Elem[1])

\* DirectiveList.ForName / ArgumentList.ForName: the first element of that
\* name, as a sequence of length 0 (nil) or 1.
ForName(list, name) ==
    LET hits == SelectSeq(list, LAMBDA d : d.Name = name)
    IN IF Len(hits) = 0 THEN hits ELSE <<hits[1]>>

\* sch.Types[name]: a sequence of length 0 (nil) or 1.
TypesAt(sch, name) == ForName(sch.Types, name)

parentInterface(sch, typDef, fieldName) ==
    LET declares(iface) ==
            \E i \in DOMAIN TypesAt(sch, iface)[1].Fields :
                TypesAt(sch, iface)[1].Fields[i].Name = fieldName
        found == SelectSeq(typDef.Interfaces, declares)
    IN IF Len(found) = 0 THEN "" ELSE found[1]

\* indexStr that takes the scalar's default even when the directive names a kind
indexStrDefault(f) ==
    LET searchable == ForName(f.Directives, searchableDirective) IN
    IF Len(searchable) = 0 THEN ""
    ELSE " @index(" \o defaultSearchables(TypeName(f.Type)) \o ")"

\* genDgSchema's index specification of a scalar field
indexStr(f) ==
    LET searchable == ForName(f.Directives, searchableDirective) IN
    IF Len(searchable) = 0 THEN "" ELSE
    LET arg == ForName(searchable[1].Arguments, searchableArg) IN
    IF Len(arg) # 0
    THEN " @index(" \o arg[1].Value.Raw \o ")"
    ELSE " @index(" \o defaultSearchables(TypeName(f.Type)) \o ")"

\* What genDgSchema writes for one field: lines of the type block and lines of
\* predicate declarations (each Fprintf writes one line).
fieldStrings(gqlSch, def, f) ==
    IF TypeName(f.Type) = "ID" THEN [preds |-> <<>>, typeDef |-> <<>>] ELSE
    LET parentInt == parentInterface(gqlSch, def, f.Name)
        typName == IF parentInt # "" THEN parentInt ELSE def.Name
        prefix == IF Len(f.Type.Elem) # 0 THEN "[" ELSE ""
        suffix == IF Len(f.Type.Elem) # 0 THEN "]" ELSE ""
        kind == TypesAt(gqlSch, TypeName(f.Type))[1].Kind
    IN
    CASE kind = Object ->
             LET typStr == prefix \o "uid" \o suffix IN
             [preds |-> IF parentInt = ""
                        THEN <<typName \o "." \o f.Name \o ": " \o typStr \o " .">>
                        ELSE <<>>,
              typeDef |-> <<"  " \o typName \o "." \o f.Name \o ": " \o typStr>>]
      [] kind = Scalar ->
             LET typStr == prefix \o scalarToDgraph(TypeName(f.Type)) \o suffix IN
             [preds |-> IF parentInt = ""
                        THEN <<typName \o "." \o f.Name \o ": " \o typStr
                               \o indexStr(f) \o " .">>
                        ELSE <<>>,
              typeDef |-> <<"  " \o typName \o "." \o f.Name \o ": " \o typStr>>]
      [] kind = Enum ->
             [preds |-> IF parentInt = ""
                        THEN <<typName \o "." \o f.Name \o ": string @index(exact) .">>
                        ELSE <<>>,
              typeDef |-> <<"  " \o typName \o "." \o f.Name \o ": string">>]
      [] OTHER -> [preds |-> <<>>, typeDef |-> <<>>]

RECURSIVE typeDefLines(_, _, _)
typeDefLines(gqlSch, def, i) ==
    IF i > Len(def.Fields) THEN <<>>
    ELSE fieldStrings(gqlSch, def, def.Fields[i]).typeDef \o typeDefLines(gqlSch, def, i + 1)
RECURSIVE predsLines(_, _, _)
predsLines(gqlSch, def, i) ==
    IF i > Len(def.Fields) THEN <<>>
    ELSE fieldStrings(gqlSch, def, def.Fields[i]).preds \o predsLines(gqlSch, def, i + 1)

\* The string genDgSchema appends for one definition, as its lines.
typeString(gqlSch, key) ==
    LET def == TypesAt(gqlSch, key)[1] IN
    IF def.Kind \in {Object, Interface}
    THEN <<"type " \o def.Name \o " {">> \o typeDefLines(gqlSch, def, 1) \o <<"}">>
         \o predsLines(gqlSch, def, 1)
    ELSE <<>>

\* genDgSchema: the generated schema, as the sequence of its lines.
RECURSIVE genDgSchemaFrom(_, _, _)
genDgSchemaFrom(gqlSch, definitions, i) ==
    IF i > Len(definitions) THEN <<>>
    ELSE typeString(gqlSch, definitions[i]) \o genDgSchemaFrom(gqlSch, definitions, i + 1)
genDgSchema(gqlSch, definitions) == genDgSchemaFrom(gqlSch, definitions, 1)

\* DgraphMapping without the step from a payload type back to its type
resolveSelf(sch, inputTyp) ==
    [inputTypeName |-> inputTyp.Name, inputTyp |-> <<inputTyp>>]

\* DgraphMapping: the type whose fields are mapped for inputTyp, and its name;
\* inputTyp is nil (length 0) when the schema has no type of the stripped name.
resolve(sch, inputTyp) ==
    IF HasPrefix(inputTyp.Name, "Delete") /\ HasSuffix(inputTyp.Name, "Payload")
    THEN LET inputTypeName == TrimSuffix(TrimPrefix(inputTyp.Name, "Delete"), "Payload")
         IN [inputTypeName |-> inputTypeName, inputTyp |-> TypesAt(sch, inputTypeName)]
    ELSE [inputTypeName |-> inputTyp.Name, inputTyp |-> <<inputTyp>>]

\* DgraphMapping skips these types.
skipped(inputTyp) ==
    \/ inputTyp.BuiltIn
    \/ inputTyp.Name = "query"
    \/ inputTyp.Name = "mutation"
    \/ (inputTyp.Kind # Object /\ inputTyp.Kind # Interface)

\* The map writes DgraphMapping makes for one type of the schema.
typeWrites(sch, originalTyp) ==
    LET r == resolve(sch, originalTyp)
        fld(i) == r.inputTyp[1].Fields[i]
        typName(i) ==
            LET parentInt == parentInterface(sch, r.inputTyp[1], fld(i).Name)
            IN IF parentInt # "" THEN parentInt ELSE r.inputTypeName
    IN [i \in 1..Len(r.inputTyp[1].Fields) |->
           [val |-> typName(i) \o "." \o fld(i).Name, key |-> originalTyp.Name \o fld(i).Name]]

RECURSIVE writesIn(_, _, _)
writesIn(sch, order, i) ==
    IF i > Len(order) THEN <<>>
    ELSE typeWrites(sch, sch.Types[order[i]]) \o writesIn(sch, order, i + 1)

\* The map a sequence of writes leaves: one entry per key, holding the last
\* value written for it; entries are listed by the key's first write in `keys`.
RECURSIVE mapOf(_, _, _)
mapOf(writes, keys, i) ==
    IF i > Len(keys) THEN <<>>
    ELSE LET k == keys[i].key
             first == \A j \in 1..(i - 1) : keys[j].key # k
             last == CHOOSE j \in DOMAIN writes :
                         /\ writes[j].key = k
                         /\ \A l \in DOMAIN writes : writes[l].key = k => l <= j
         IN (IF first THEN <<[val |-> writes[last].val, key |-> k]>> ELSE <<>>)
            \o mapOf(writes, keys, i + 1)

\* The orders in which a Go range over sch.Types can visit the types that are
\* not skipped.
RECURSIVE orders(_)
orders(S) ==
    IF S = {} THEN {<<>>}
    ELSE UNION {{<<x>> \o o : o \in orders(S \ {x})} : x \in S}

\* DgraphMapping: the maps it can return; it panics on the nil type a payload
\* name without its type resolves to.
DgraphMapping(sch) ==
    LET kept == {i \in DOMAIN sch.Types : ~skipped(sch.Types[i])}
        decl == SelectSeq([i \in DOMAIN sch.Types |-> i], LAMBDA i : i \in kept)
    IN IF \E i \in kept : Len(resolve(sch, sch.Types[i]).inputTyp) = 0
       THEN {[panicked |-> TRUE, entries |-> <<>>]}
       ELSE {[panicked |-> FALSE,
              entries |-> mapOf(writesIn(sch, o, 1), writesIn(sch, decl, 1), 1)]
             : o \in orders(kept)}

-----------------------------------------------------------------------------
(* The schemas the compiler is given *)

Field(name, type, directives) == [Name |-> name, Type |-> type, Directives |-> directives]
Searchable == [Name |-> searchableDirective, Arguments |-> <<>>]
SearchableBy(kind) ==
    [Name |-> searchableDirective,
     Arguments |-> <<[Name |-> searchableArg, Value |-> [Raw |-> kind]]>>]
Def(name, kind, interfaces, fields) ==
    [Name |-> name, Kind |-> kind, BuiltIn |-> FALSE, Interfaces |-> interfaces,
     Fields |-> fields]
BuiltInScalar(name) ==
    [Name |-> name, Kind |-> Scalar, BuiltIn |-> TRUE, Interfaces |-> <<>>, Fields |-> <<>>]

\* The definitions parsed from validator.Prelude, and those expandSchema adds.
Prelude ==
    <<BuiltInScalar("Int"), BuiltInScalar("Float"), BuiltInScalar("String"),
      BuiltInScalar("Boolean"), BuiltInScalar("ID")>>
schemaExtras == <<Def("DateTime", Scalar, <<>>, <<>>)>>

IdField == Field("id", Named("ID"), <<>>)
NameField == Field("name", Named("String"), <<SearchableBy("hash")>>)

\* interface A; types B and C implement it and repeat its fields.
InterfaceDefs ==
    <<Def("A", Interface, <<>>, <<IdField, NameField>>),
      Def("B", Object, <<"A">>,
          <<IdField, NameField, Field("age", Named("Int"), <<Searchable>>)>>),
      Def("C", Object, <<"A">>,
          <<IdField, NameField, Field("friend", Named("B"), <<>>),
            Field("tags", ListOf(Named("String")), <<>>)>>)>>

\* Two interfaces that declare the same field, implemented in both orders.
TwoInterfaceDefs ==
    <<Def("A", Interface, <<>>, <<Field("name", Named("String"), <<>>)>>),
      Def("A2", Interface, <<>>,
          <<Field("name", Named("String"), <<>>), Field("rank", Named("Int"), <<>>)>>),
      Def("B", Object, <<"A2", "A">>,
          <<Field("name", Named("String"), <<>>), Field("rank", Named("Int"), <<>>)>>),
      Def("C", Object, <<"A", "A2">>,
          <<Field("name", Named("String"), <<>>), Field("rank", Named("Int"), <<>>)>>)>>

\* Fields of every kind, with and without lists and index directives.
KindDefs ==
    <<Def("Color", Enum, <<>>, <<>>),
      Def("T", Object, <<>>,
          <<IdField,
            Field("f", Named("Int"), <<Searchable>>),
            Field("s", Named("String"), <<>>),
            Field("since", Named("DateTime"), <<SearchableBy("hour")>>),
            Field("grid", ListOf(ListOf(Named("Float"))), <<Searchable>>),
            Field("color", Named("Color"), <<>>),
            Field("colors", ListOf(Named("Color")), <<SearchableBy("hash")>>),
            Field("owner", Named("T"), <<Searchable>>),
            Field("owners", ListOf(Named("T")), <<>>)>>)>>

\* type T { f: Int @searchable }
SearchableDefs == <<Def("T", Object, <<>>, <<Field("f", Named("Int"), <<Searchable>>)>>)>>

\* An interface with a field of its own type.
CharacterDefs ==
    <<Def("Character", Interface, <<>>,
          <<Field("name", Named("String"), <<>>),
            Field("friends", ListOf(Named("Character")), <<>>)>>),
      Def("Human", Object, <<"Character">>,
          <<Field("name", Named("String"), <<>>),
            Field("friends", ListOf(Named("Character")), <<>>),
            Field("height", Named("Float"), <<>>)>>)>>

\* What NewHandler is given: the input text, and what the parser and the three
\* validators (all outside this file) make of it.
Input(text, parseErr, preErrs, validateErr, postErrs, defs) ==
    [text |-> text, parseErr |-> parseErr, preErrs |-> preErrs,
     validateErr |-> validateErr, postErrs |-> postErrs,
     doc |-> [Definitions |-> Prelude \o defs]]
Valid(text, defs) == Input(text, "", "", "", "", defs)
NoInput == Valid("", <<>>)
Inputs ==
    { NoInput,
      Input("", "Unexpected <EOF>", "", "", "", <<>>),
      Input("type {", "Expected Name, found {", "", "", "", <<>>),
      Input("type T { f: Int } scalar Int", "", "Int is a reserved word", "",
            "postGQLValidation must not run", SearchableDefs),
      Input("type T { f: Int @searchable } type T { g: Int }", "", "",
            "Cannot redeclare type T.", "", SearchableDefs),
      Input("type T { id: ID! id2: ID! }", "", "", "",
            "Fields id and id2 are listed as IDs for type T", SearchableDefs),
      Valid("type T { f: Int @searchable }", SearchableDefs),
      Valid("interface A {..} type B implements A {..} type C implements A {..}",
            InterfaceDefs),
      Valid("interface A {..} interface A2 {..} type B implements A2 & A {..} ..",
            TwoInterfaceDefs),
      Valid("enum Color {..} type T {..}", KindDefs),
      Valid("interface Character {..} type Human implements Character {..}",
            CharacterDefs) }

\* What ValidateSchemaDocument returns for the expanded document.
schemaOf(doc) == [Types |-> doc.Definitions \o schemaExtras]

\* Complete schemas DgraphMapping is called with: they hold generated payload
\* types and root operation types besides the user's.
PayloadDefs ==
    <<Def("A", Interface, <<>>, <<Field("name", Named("String"), <<>>)>>),
      Def("T", Object, <<"A">>,
          <<Field("name", Named("String"), <<>>), Field("age", Named("Int"), <<>>)>>),
      Def("DeleteTPayload", Object, <<>>, <<Field("msg", Named("String"), <<>>)>>),
      Def("TPayload", Object, <<>>, <<Field("t", Named("T"), <<>>)>>),
      Def("query", Object, <<>>, <<Field("getT", Named("T"), <<>>)>>),
      Def("mutation", Object, <<>>, <<Field("deleteT", Named("DeleteTPayload"), <<>>)>>)>>
\* A payload name whose type is missing, and one whose type is an enum.
OrphanPayloadDefs ==
    <<Def("T", Object, <<>>, <<Field("f", Named("Int"), <<>>)>>),
      Def("DeleteXPayload", Object, <<>>, <<Field("msg", Named("String"), <<>>)>>)>>
EnumPayloadDefs ==
    <<Def("Color", Enum, <<>>, <<>>),
      Def("DeleteColorPayload", Object, <<>>, <<Field("msg", Named("String"), <<>>)>>)>>
\* Two types whose name and field concatenate to the same key.
CollidingDefs ==
    <<Def("T", Object, <<>>, <<Field("ab", Named("String"), <<>>)>>),
      Def("Ta", Object, <<>>, <<Field("b", Named("String"), <<>>)>>)>>
MappingSchemas ==
    { schemaOf([Definitions |-> Prelude \o defs])
      : defs \in {PayloadDefs, OrphanPayloadDefs, EnumPayloadDefs, CollidingDefs,
                  InterfaceDefs, TwoInterfaceDefs, KindDefs, CharacterDefs} }

-----------------------------------------------------------------------------
(* The gateway as a state machine *)

NoRequest == [handler |-> "none"]

\* A compilation: its input, the stages run so far, and what NewHandler has
\* computed and returned.
NewCompile(input) ==
    [err |-> "", isNil |-> TRUE, input |-> input, pc |-> "emptyCheck", stages |-> <<>>,
     defns |-> <<>>, dgSchema |-> <<>>]
NoCompile == [NewCompile(NoInput) EXCEPT !.pc = "idle"]
NoMapping == [sch |-> [Types |-> <<>>], panicked |-> FALSE, entries |-> <<>>]

\* No jsonLineAndChar call yet: line 0 without an error is no result of it.
NoPosition == [err |-> "", offset |-> 0, line |-> 0, character |-> 0, input |-> ""]

Init ==
    /\ req = NoRequest
    /\ w = NewWriter
    /\ calls = <<>>
    /\ compile = NoCompile
    /\ mapping = NoMapping
    /\ position = NoPosition

Serve(r, res) ==
    /\ req' = r
    /\ w' = res.w
    /\ calls' = res.calls
    /\ UNCHANGED <<compile, mapping, position>>

QueryHandler == \E r \in QueryRequests : \E res \in queryHandler(r) : Serve(r, res)
MutationHandler == \E r \in MutationRequests : \E res \in mutationHandler(r) : Serve(r, res)
CommitHandler == \E r \in CommitRequests : \E res \in commitHandler(r) : Serve(r, res)
AlterHandler == \E r \in AlterRequests : \E res \in alterHandler(r) : Serve(r, res)

Next == QueryHandler \/ MutationHandler \/ CommitHandler \/ AlterHandler

Spec == Init /\ [][Next]_vars

-----------------------------------------------------------------------------
(* The schema compiler as a state machine: NewHandler stage by stage, and
   DgraphMapping *)

Ran(stage) == [compile EXCEPT !.stages = Append(@, stage)]
Return(c, err) == [c EXCEPT !.err = err, !.pc = "done"]
Goto(c, pc) == [c EXCEPT !.pc = pc]

NewHandler ==
    /\ compile.pc \in {"idle", "done"}
    /\ \E input \in Inputs : compile' = NewCompile(input)
    /\ UNCHANGED <<req, w, calls, mapping, position>>

EmptyCheck ==
    /\ compile.pc = "emptyCheck"
    /\ compile' = IF compile.input.text = ""
                  THEN Return(Ran("emptyCheck"), "No schema specified")
                  ELSE Goto(Ran("emptyCheck"), "ParseSchemas")
    /\ UNCHANGED <<req, w, calls, mapping, position>>

ParseSchemas ==
    /\ compile.pc = "ParseSchemas"
    /\ compile' = IF compile.input.parseErr # ""
                  THEN Return(Ran("ParseSchemas"), compile.input.parseErr)
                  ELSE Goto(Ran("ParseSchemas"), "preGQLValidation")
    /\ UNCHANGED <<req, w, calls, mapping, position>>

\* NewHandler going on after a failed preGQLValidation
PreGQLValidationIgnored ==
    /\ compile.pc = "preGQLValidation"
    /\ compile' = Goto(Ran("preGQLValidation"), "defns")
    /\ UNCHANGED <<req, w, calls, mapping, position>>

PreGQLValidation ==
    /\ compile.pc = "preGQLValidation"
    /\ compile' = IF compile.input.preErrs # ""
                  THEN Return(Ran("preGQLValidation"), compile.input.preErrs)
                  ELSE Goto(Ran("preGQLValidation"), "defns")
    /\ UNCHANGED <<req, w, calls, mapping, position>>

RECURSIVE names(_, _)
names(definitions, i) ==
    IF i > Len(definitions) THEN <<>>
    ELSE (IF definitions[i].BuiltIn THEN <<>> ELSE <<definitions[i].Name>>)
         \o names(definitions, i + 1)

RecordDefns ==
    /\ compile.pc = "defns"
    /\ compile' = [Goto(Ran("defns"), "expandSchema")
                       EXCEPT !.defns = names(compile.input.doc.Definitions, 1)]
    /\ UNCHANGED <<req, w, calls, mapping, position>>

ExpandSchema ==
    /\ compile.pc = "expandSchema"
    /\ compile' = Goto(Ran("expandSchema"), "ValidateSchemaDocument")
    /\ UNCHANGED <<req, w, calls, mapping, position>>

ValidateSchemaDocument ==
    /\ compile.pc = "ValidateSchemaDocument"
    /\ compile' = IF compile.input.validateErr # ""
                  THEN Return(Ran("ValidateSchemaDocument"), compile.input.validateErr)
                  ELSE Goto(Ran("ValidateSchemaDocument"), "postGQLValidation")
    /\ UNCHANGED <<req, w, calls, mapping, position>>

PostGQLValidation ==
    /\ compile.pc = "postGQLValidation"
    /\ compile' = IF compile.input.postErrs # ""
                  THEN Return(Ran("postGQLValidation"), compile.input.postErrs)
                  ELSE Goto(Ran("postGQLValidation"), "genDgSchema")
    /\ UNCHANGED <<req, w, calls, mapping, position>>

GenDgSchema ==
    /\ compile.pc = "genDgSchema"
    /\ compile' = [Goto(Ran("genDgSchema"), "completeSchema")
                       EXCEPT !.dgSchema = genDgSchema(schemaOf(compile.input.doc),
                                                       compile.defns)]
    /\ UNCHANGED <<req, w, calls, mapping, position>>

CompleteSchema ==
    /\ compile.pc = "completeSchema"
    /\ compile' = [Return(Ran("completeSchema"), "") EXCEPT !.isNil = FALSE]
    /\ UNCHANGED <<req, w, calls, mapping, position>>

DgraphMappingCall ==
    /\ \E sch \in MappingSchemas : \E m \in DgraphMapping(sch) :
           mapping' = [sch |-> sch, panicked |-> m.panicked, entries |-> m.entries]
    /\ UNCHANGED <<req, w, calls, compile, position>>

NextSchema ==
    \/ NewHandler \/ EmptyCheck \/ ParseSchemas \/ PreGQLValidation \/ RecordDefns
    \/ ExpandSchema \/ ValidateSchemaDocument \/ PostGQLValidation \/ GenDgSchema
    \/ CompleteSchema \/ DgraphMappingCall

SpecSchema == Init /\ [][NextSchema]_vars

-----------------------------------------------------------------------------
(* jsonLineAndChar applied to bounded input texts and offsets *)

\* The bytes of the generated texts: a line feed and two other bytes.
Bytes == {"\n", "a", "b"}

RECURSIVE TextsOfLen(_)
TextsOfLen(n) ==
    IF n = 0 THEN {""} ELSE {t \o b : t \in TextsOfLen(n - 1), b \in Bytes}

\* The request body of BadQueryBody, and every text of at most MaxLen bytes.
Texts == {BadQueryBody.text} \cup UNION {TextsOfLen(n) : n \in 0..MaxLen}

\* Offsets from one below the input to one past its end.
Offsets(input) == -1..(Len(input) + 1)

JsonLineAndChar ==
    /\ \E input \in Texts : \E offset \in Offsets(input) :
         LET lc == jsonLineAndChar(input, offset) IN
         position' = [err |-> lc.err, offset |-> offset, line |-> lc.line,
                      character |-> lc.character, input |-> input]
    /\ UNCHANGED <<req, w, calls, compile, mapping>>

NextPosition == JsonLineAndChar

SpecPosition == Init /\ [][NextPosition]_vars

-----------------------------------------------------------------------------
(* Properties of the gateway, over the last request served *)

\* The parameter values strconv.ParseBool reads as true, and the start
\* timestamps that stand for "none given".
TrueParam == {"1", "t", "T", "TRUE", "true", "True"}
NoStartTs == {"", "0"}
Served(h) == req.handler = h
MethodPermitted == req.method \in {"POST", "PUT"}
Rejected(msg) == w.code = ErrorInvalidRequest /\ w.message = msg /\ w.body = NoBody
Forwarded(fn) == Len(calls) = 1 /\ calls[1].fn = fn

\* C1: an abort request makes one commit call with Aborted set, and its outcome
\* is decided by that call's error alone: the "transaction aborted" error gives
\* the {Success, "Done"} envelope and no error, a nil error gives the error
\* "transaction could not be aborted" and no envelope, and any other error
\* comes back unchanged with no envelope.
AbortRequest ==
    /\ Served("commit") /\ MethodPermitted
    /\ ParseUint(req.query.startTs).err = "" /\ ParseUint(req.query.startTs).val # 0
    /\ req.query.abort \in TrueParam
C1_AbortOutcome ==
    AbortRequest =>
        /\ Forwarded("CommitOverNetwork")
        /\ calls[1].arg.Aborted
        /\ calls[1].arg.StartTs = ParseUint(req.query.startTs).val
        /\ LET e == calls[1].ret.err IN
           /\ e = ErrAborted =>
                 /\ w.code = ""
                 /\ w.body = [code |-> Success, message |-> "Done", kind |-> "abort"]
           /\ e = "" => Rejected("transaction could not be aborted")
           /\ e \notin {ErrAborted, ""} => Rejected(e)
C1_Witness ==
    /\ AbortRequest /\ Forwarded("CommitOverNetwork")
    /\ calls[1].ret.err = ""
    /\ Rejected("transaction could not be aborted")

IsSorted(s) == \A i \in 1..(Len(s) - 1) : ~StrLess(s[i + 1], s[i])
Count(s, k) == Cardinality({i \in DOMAIN s : s[i] = k})
SameKeys(a, b) == Len(a) = Len(b) /\ \A k \in KeyUniverse : Count(a, k) = Count(b, k)
MutationDone == Served("mutation") /\ w.body.kind = "mutation"
CommitDone == Served("commit") /\ w.body.kind = "commit"

\* C2: a successful mutation whose query string has commitNow=true, and a
\* successful commit, answer with an empty key list whatever keys the engine
\* returned or the client sent; commitNow is taken from the query string only;
\* a successful mutation without it answers with the engine's keys, sorted.
C2_KeysCleared ==
    /\ (MutationDone /\ req.query.commitNow \in TrueParam)
           => w.body.extensions.txn.keys = <<>>
    /\ CommitDone => w.body.extensions.txn.keys = <<>>
    /\ (Served("mutation") /\ Forwarded("Query"))
           => calls[1].arg.CommitNow = (req.query.commitNow \in TrueParam)
    /\ (MutationDone /\ req.query.commitNow \notin TrueParam)
           => /\ IsSorted(w.body.extensions.txn.keys)
              /\ SameKeys(w.body.extensions.txn.keys, calls[1].ret.Keys)
C2_Witness ==
    /\ MutationDone /\ req.query.commitNow = "true"
    /\ calls[1].ret.Keys = <<"b", "ab">>
    /\ w.body.extensions.txn.keys = <<>>

\* C5: a commit request that passes the method check with startTs absent, empty
\* or 0 is rejected with "startTs parameter is mandatory while trying to commit";
\* no commit request without a start timestamp reaches the commit call, and no
\* commit call is made with a start timestamp of 0.
C5_CommitNeedsStartTs ==
    Served("commit") =>
        /\ (MethodPermitted /\ req.query.startTs \in NoStartTs)
               => Rejected("startTs parameter is mandatory while trying to commit")
        /\ req.query.startTs \in NoStartTs => calls = <<>>
        /\ \A i \in DOMAIN calls :
               calls[i].fn = "CommitOverNetwork" => calls[i].arg.StartTs # 0
C5_Witness ==
    /\ Served("commit") /\ MethodPermitted /\ req.query.startTs = "0"
    /\ Rejected("startTs parameter is mandatory while trying to commit")
    /\ calls = <<>>

InvalidMethod ==
    /\ w = [body |-> NoBody, statusCode |-> StatusBadRequest,
            code |-> ErrorInvalidMethod, message |-> "Invalid method"]
    /\ calls = <<>>

\* C6 as stated: on every handler a request whose method is neither POST nor
\* PUT gets the InvalidMethod status with a non-success transport status, and
\* nothing is parsed, decoded or sent to the engine.
C6_AnyOtherMethod ==
    (~Served("none") /\ ~MethodPermitted) =>
        /\ w.code = ErrorInvalidMethod /\ w.statusCode # StatusOK
        /\ w.body = NoBody /\ calls = <<>>

\* C6, amended: on every handler a request whose method is none of POST, PUT
\* and OPTIONS gets the InvalidMethod status with transport status 400, and an
\* OPTIONS request gets no status at all (the transport status stays 200); in
\* both cases nothing is parsed, decoded or sent to the engine.
C6_MethodCheck ==
    (~Served("none") /\ ~MethodPermitted) =>
        IF req.method = "OPTIONS" THEN w = NewWriter /\ calls = <<>>
        ELSE InvalidMethod
C6_Witness ==
    /\ Served("commit") /\ req.method = "GET" /\ req.query.startTs = "x"
    /\ InvalidMethod

\* C7: every request forwarded to the query engine with BestEffort set also has
\* ReadOnly set and a start timestamp of 0; a query request with startTs absent
\* or 0 and be=true is forwarded with both flags set.
C7_BestEffort ==
    /\ \A i \in DOMAIN calls :
           (calls[i].fn = "Query" /\ calls[i].arg.BestEffort)
               => (calls[i].arg.ReadOnly /\ calls[i].arg.StartTs = 0)
    /\ (Served("query") /\ Forwarded("Query")
        /\ req.query.startTs \in NoStartTs /\ req.query.be \in TrueParam)
           => (calls[1].arg.BestEffort /\ calls[1].arg.ReadOnly)
C7_Witness ==
    /\ Served("query") /\ Forwarded("Query")
    /\ req.query.startTs = "" /\ req.query.be = "true" /\ req.query.ro = ""
    /\ calls[1].arg.BestEffort /\ calls[1].arg.ReadOnly /\ calls[1].arg.StartTs = 0

\* C8 as stated: a query request with ro=true is forwarded with ReadOnly set,
\* whether or not be was given and whether or not a start timestamp was given.
C8_ReadOnlyAlways ==
    (Served("query") /\ Forwarded("Query") /\ req.query.ro \in TrueParam)
        => calls[1].arg.ReadOnly

\* C8, amended: a query request with ro=true and startTs absent or 0 is
\* forwarded with ReadOnly set, whether or not be was given; with a start
\* timestamp other than 0 the be and ro parameters are not read and the request
\* is forwarded with neither flag set.
C8_ReadOnly ==
    (Served("query") /\ Forwarded("Query")) =>
        /\ (req.query.ro \in TrueParam /\ req.query.startTs \in NoStartTs)
               => calls[1].arg.ReadOnly
        /\ calls[1].arg.StartTs # 0
               => (~calls[1].arg.ReadOnly /\ ~calls[1].arg.BestEffort)
C8_Witness ==
    /\ Served("query") /\ Forwarded("Query")
    /\ req.query.startTs = "" /\ req.query.ro = "true" /\ req.query.be = ""
    /\ calls[1].arg.ReadOnly /\ ~calls[1].arg.BestEffort

-----------------------------------------------------------------------------
(* Properties of the schema compiler *)

Out == compile.dgSchema
Generated == \E i \in DOMAIN compile.stages : compile.stages[i] = "genDgSchema"
Compiled == schemaOf(compile.input.doc)
\* The user's definitions of the given kinds, as indexes into the schema.
UserDefs(sch, kinds) ==
    {i \in DOMAIN sch.Types : ~sch.Types[i].BuiltIn /\ sch.Types[i].Kind \in kinds}
DefNamed(sch, name) == sch.Types[CHOOSE i \in DOMAIN sch.Types : sch.Types[i].Name = name]
IsDefined(sch, name) == \E i \in DOMAIN sch.Types : sch.Types[i].Name = name
Declares(def, fieldName) == \E i \in DOMAIN def.Fields : def.Fields[i].Name = fieldName
\* The implemented interfaces of def that declare the field, by position.
Declaring(sch, def, fieldName) ==
    {i \in DOMAIN def.Interfaces : Declares(DefNamed(sch, def.Interfaces[i]), fieldName)}
Inherited(sch, def, fieldName) == Declaring(sch, def, fieldName) # {}
FirstDeclaring(sch, def, fieldName) ==
    def.Interfaces[CHOOSE i \in Declaring(sch, def, fieldName) :
                       \A j \in Declaring(sch, def, fieldName) : i <= j]
Namespace(sch, def, fieldName) ==
    IF Inherited(sch, def, fieldName) THEN FirstDeclaring(sch, def, fieldName)
    ELSE def.Name
FieldKind(sch, f) == DefNamed(sch, TypeName(f.Type)).Kind

\* Reading the generated schema: the lines that start with a prefix, and the
\* section of a type: from its "type T {" line to the next one.
LinesWith(prefix) == {i \in DOMAIN Out : HasPrefix(Out[i], prefix)}
SectionStart(name) == CHOOSE i \in DOMAIN Out : Out[i] = "type " \o name \o " {"
InSection(name, i) ==
    /\ \E k \in DOMAIN Out : Out[k] = "type " \o name \o " {"
    /\ SectionStart(name) < i
    /\ \A k \in (SectionStart(name) + 1)..i : ~HasPrefix(Out[k], "type ")
Contains(str, sub) ==
    \E i \in 1..(Len(str) - Len(sub) + 1) : SubSeq(str, i, i + Len(sub) - 1) = sub
\* The index specification of a predicate declaration "<id>: <type>[ @index(..)] ."
IndexSpec(decl) ==
    IF Contains(decl, " @index(")
    THEN LET at == CHOOSE i \in 1..Len(decl) : SubSeq(decl, i, i + 7) = " @index("
         IN SubSeq(decl, at + 1, Len(decl) - 2)
    ELSE ""

\* What C3 asks of one inherited field f of the object type def.
InterfacePredicate(sch, def, f) ==
    LET iface == FirstDeclaring(sch, def, f.Name)
        id == iface \o "." \o f.Name
    IN /\ \E i \in LinesWith("  " \o id \o ": ") : InSection(def.Name, i)
       /\ ~\E i \in LinesWith("  " \o def.Name \o "." \o f.Name \o ": ") :
              InSection(def.Name, i)
       /\ Cardinality(LinesWith(id \o ": ")) = 1
       /\ \A i \in LinesWith(id \o ": ") : InSection(iface, i)

\* C3: in the generated schema every non-ID field of a user-declared Object
\* type that an implemented interface declares is named '<Interface>.<field>'
\* after the first such interface and not '<Type>.<field>', and the predicate's
\* standalone declaration appears exactly once in the whole output, with the
\* interface.
C3_InterfacePredicates ==
    Generated =>
        \A t \in UserDefs(Compiled, {Object}) :
            LET def == Compiled.Types[t] IN
            \A k \in DOMAIN def.Fields :
                (TypeName(def.Fields[k].Type) # "ID"
                 /\ Inherited(Compiled, def, def.Fields[k].Name))
                    => InterfacePredicate(Compiled, def, def.Fields[k])

\* C3 for the fields whose type is an Object, a Scalar or an Enum: the part of
\* the claim that holds.
C3_ExceptInterfaceKind ==
    Generated =>
        \A t \in UserDefs(Compiled, {Object}) :
            LET def == Compiled.Types[t] IN
            \A k \in DOMAIN def.Fields :
                (TypeName(def.Fields[k].Type) # "ID"
                 /\ Inherited(Compiled, def, def.Fields[k].Name)
                 /\ FieldKind(Compiled, def.Fields[k]) \in {Object, Scalar, Enum})
                    => InterfacePredicate(Compiled, def, def.Fields[k])

MapHas(k) == \E i \in DOMAIN mapping.entries : mapping.entries[i].key = k
MapGet(k) ==
    mapping.entries[CHOOSE i \in DOMAIN mapping.entries : mapping.entries[i].key = k].val
Mapped(def) ==
    /\ ~def.BuiltIn /\ def.Kind \in {Object, Interface}
    /\ def.Name \notin {"query", "mutation"}
PredicateOf(def, f) == Namespace(mapping.sch, def, f.Name) \o "." \o f.Name

\* C4 as stated: for every type T of the schema and every type named
\* 'Delete<T>Payload' or '<T>Payload', the mapping has for each field f of T an
\* entry keyed by the payload type's name plus f, with the value the mapping
\* gives for (T, f).
C4_PayloadTypes ==
    ~mapping.panicked =>
        \A i, j \in DOMAIN mapping.sch.Types :
            LET payload == mapping.sch.Types[i]
                T == mapping.sch.Types[j]
            IN (Mapped(payload) /\ Mapped(T)
                /\ payload.Name \in {"Delete" \o T.Name \o "Payload", T.Name \o "Payload"})
                   => \A k \in DOMAIN T.Fields :
                          /\ MapHas(payload.Name \o T.Fields[k].Name)
                          /\ MapHas(T.Name \o T.Fields[k].Name)
                          /\ MapGet(payload.Name \o T.Fields[k].Name)
                                 = MapGet(T.Name \o T.Fields[k].Name)

\* C4, amended: for every type T of the schema and every type named
\* 'Delete<T>Payload', the mapping has for each field f of T an entry keyed by
\* the payload type's name plus f whose value is the predicate identifier of
\* (T, f): '<first implemented interface of T that declares f, else T>.<f>',
\* which is what the mapping gives for (T, f). A type named '<T>Payload'
\* without the Delete prefix is not resolved to T: it is mapped like any other
\* type, by its own fields under its own name.
C4_DeletePayload ==
    ~mapping.panicked =>
        \A i, j \in DOMAIN mapping.sch.Types :
            LET payload == mapping.sch.Types[i]
                T == mapping.sch.Types[j]
            IN /\ (Mapped(payload) /\ Mapped(T)
                   /\ payload.Name = "Delete" \o T.Name \o "Payload")
                      => \A k \in DOMAIN T.Fields :
                             /\ MapHas(payload.Name \o T.Fields[k].Name)
                             /\ MapHas(T.Name \o T.Fields[k].Name)
                             /\ MapGet(payload.Name \o T.Fields[k].Name)
                                    = PredicateOf(T, T.Fields[k])
                             /\ MapGet(T.Name \o T.Fields[k].Name)
                                    = PredicateOf(T, T.Fields[k])
               /\ (Mapped(payload) /\ Mapped(T)
                   /\ payload.Name = T.Name \o "Payload"
                   /\ ~HasPrefix(payload.Name, "Delete"))
                      => /\ \A k \in DOMAIN payload.Fields :
                                /\ MapHas(payload.Name \o payload.Fields[k].Name)
                                /\ MapGet(payload.Name \o payload.Fields[k].Name)
                                       = PredicateOf(payload, payload.Fields[k])
                         /\ \A k \in DOMAIN T.Fields :
                                ~Declares(payload, T.Fields[k].Name)
                                    => ~MapHas(payload.Name \o T.Fields[k].Name)
C4_Witness ==
    /\ ~mapping.panicked
    /\ IsDefined(mapping.sch, "DeleteTPayload") /\ IsDefined(mapping.sch, "T")
    /\ DefNamed(mapping.sch, "T").Interfaces = <<"A">>
    /\ MapHas("DeleteTPayloadname") /\ MapGet("DeleteTPayloadname") = "A.name"
    /\ MapHas("DeleteTPayloadage") /\ MapGet("DeleteTPayloadage") = "T.age"
    /\ MapHas("Tname") /\ MapGet("Tname") = "A.name"

StageOrder ==
    <<"emptyCheck", "ParseSchemas", "preGQLValidation", "defns", "expandSchema",
      "ValidateSchemaDocument", "postGQLValidation", "genDgSchema", "completeSchema">>
\* The error with which a stage fails on an input; "" when it succeeds.
Failure(input, stage) ==
    CASE stage = "emptyCheck" -> IF input.text = "" THEN "No schema specified" ELSE ""
      [] stage = "ParseSchemas" -> input.parseErr
      [] stage = "preGQLValidation" -> input.preErrs
      [] stage = "ValidateSchemaDocument" -> input.validateErr
      [] stage = "postGQLValidation" -> input.postErrs
      [] OTHER -> ""

\* C9: NewHandler runs its stages in the order empty-check, parse,
\* pre-validate, record definitions, expand, GraphQL-validate, post-validate,
\* generate, complete; no stage runs after one that failed, and the result is
\* then a nil handler with that stage's error; a handler is returned exactly
\* when every stage succeeded, with a nil error; the predicate schema is never
\* generated from a schema that failed a validation.
C9_StageOrder ==
    LET n == Len(compile.stages)
        input == compile.input
    IN /\ n <= Len(StageOrder) /\ compile.stages = SubSeq(StageOrder, 1, n)
       /\ \A i \in 1..(n - 1) : Failure(input, compile.stages[i]) = ""
       /\ compile.pc # "done" => compile.isNil
       /\ compile.pc = "done" =>
              /\ ~compile.isNil
                     <=> \A i \in DOMAIN StageOrder : Failure(input, StageOrder[i]) = ""
              /\ ~compile.isNil => (compile.err = "" /\ compile.stages = StageOrder)
              /\ compile.isNil =>
                     /\ n >= 1 /\ compile.err # ""
                     /\ compile.err = Failure(input, compile.stages[n])
                     /\ compile.dgSchema = <<>>
       /\ Generated =>
              /\ input.text # "" /\ input.parseErr = "" /\ input.preErrs = ""
              /\ input.validateErr = "" /\ input.postErrs = ""
C9_Witness ==
    /\ compile.pc = "done" /\ compile.isNil
    /\ compile.stages = SubSeq(StageOrder, 1, 3)
    /\ compile.input.preErrs # "" /\ compile.err = compile.input.preErrs
    /\ compile.input.postErrs # ""

HasSearchable(f) == \E i \in DOMAIN f.Directives : f.Directives[i].Name = "searchable"
SearchableArgs(f) ==
    f.Directives[CHOOSE i \in DOMAIN f.Directives :
                     f.Directives[i].Name = "searchable"].Arguments
\* The index specification C10 gives a field of the kind.
ExpectedIndex(f, kind) ==
    CASE kind = Object -> ""
      [] kind = Enum -> "@index(exact)"
      [] kind = Scalar ->
             IF ~HasSearchable(f) THEN ""
             ELSE IF \E i \in DOMAIN SearchableArgs(f) : SearchableArgs(f)[i].Name = "by"
             THEN "@index("
                  \o SearchableArgs(f)[CHOOSE i \in DOMAIN SearchableArgs(f) :
                                           SearchableArgs(f)[i].Name = "by"].Value.Raw
                  \o ")"
             ELSE "@index(" \o defaultSearchables(TypeName(f.Type)) \o ")"

\* C10: the predicate declaration generated for a field has no index
\* specification when the field's type is an Object, '@index(exact)' when it is
\* an Enum, and when it is a Scalar: '@index(<arg>)' with the directive's
\* argument verbatim, '@index(<the scalar's default kind>)' when the directive
\* has no argument, and none without the directive.
C10_IndexSpec ==
    Generated =>
        \A t \in UserDefs(Compiled, {Object, Interface}) :
            LET def == Compiled.Types[t] IN
            \A k \in DOMAIN def.Fields :
                LET f == def.Fields[k]
                    decls == LinesWith(def.Name \o "." \o f.Name \o ": ")
                IN (TypeName(f.Type) # "ID" /\ ~Inherited(Compiled, def, f.Name)
                    /\ FieldKind(Compiled, f) \in {Object, Scalar, Enum})
                       => /\ Cardinality(decls) = 1
                          /\ \A i \in decls :
                                 IndexSpec(Out[i]) = ExpectedIndex(f, FieldKind(Compiled, f))
C10_Witness ==
    /\ Generated
    /\ compile.input.doc.Definitions = Prelude \o SearchableDefs
    /\ \E i \in DOMAIN Out : Out[i] = "T.f: int @index(int) ."

\* The storage type C11 gives a field whose type is of the kind.
ListWrapped(f, base) == IF Len(f.Type.Elem) # 0 THEN "[" \o base \o "]" ELSE base
ExpectedStorage(f, kind) ==
    CASE kind = Object -> ListWrapped(f, "uid")
      [] kind = Scalar -> ListWrapped(f, scalarToDgraph(TypeName(f.Type)))
      [] kind = Enum -> ListWrapped(f, "string")
\* The lines of the type block of a type that name the field.
BlockLines(sch, def, f) ==
    {i \in LinesWith("  " \o Namespace(sch, def, f.Name) \o "." \o f.Name \o ": ") :
         InSection(def.Name, i)}
\* What C11 asks of one non-ID field f of def, for the kinds in `kinds`.
NamedInBlock(sch, def, f, kinds) ==
    /\ Cardinality(BlockLines(sch, def, f)) = 1
    /\ FieldKind(sch, f) \in kinds =>
           \A i \in BlockLines(sch, def, f) :
               Out[i] = "  " \o Namespace(sch, def, f.Name) \o "." \o f.Name \o ": "
                        \o ExpectedStorage(f, FieldKind(sch, f))
\* The type blocks follow the order in which the types were declared.
BlocksInOrder(sch) ==
    \A t, u \in UserDefs(sch, {Object, Interface}) :
        /\ \E i \in DOMAIN Out : Out[i] = "type " \o sch.Types[t].Name \o " {"
        /\ t < u => SectionStart(sch.Types[t].Name) < SectionStart(sch.Types[u].Name)

\* C11: for every user-declared Object or Interface type, in declaration
\* order, the type block names every field whose type is not ID exactly once,
\* as '<namespace>.<field>: <storage type>': uid for a field of an Object type,
\* the scalar table's entry for a Scalar, string for an Enum, in list brackets
\* when the field is list-typed and bare when it is not.
C11_TypeBlocks ==
    Generated =>
        /\ BlocksInOrder(Compiled)
        /\ \A t \in UserDefs(Compiled, {Object, Interface}) :
               LET def == Compiled.Types[t] IN
               \A k \in DOMAIN def.Fields :
                   TypeName(def.Fields[k].Type) # "ID"
                       => NamedInBlock(Compiled, def, def.Fields[k], {Object, Scalar, Enum})

\* C11 without the list fields of an Enum type and the fields whose type is an
\* interface: the part of the claim that holds.
C11_ExceptEnumListsAndInterfaceKind ==
    Generated =>
        /\ BlocksInOrder(Compiled)
        /\ \A t \in UserDefs(Compiled, {Object, Interface}) :
               LET def == Compiled.Types[t] IN
               \A k \in DOMAIN def.Fields :
                   LET f == def.Fields[k] IN
                   (TypeName(f.Type) # "ID"
                    /\ FieldKind(Compiled, f) \in {Object, Scalar, Enum}
                    /\ ~(FieldKind(Compiled, f) = Enum /\ Len(f.Type.Elem) # 0))
                       => NamedInBlock(Compiled, def, f, {Object, Scalar, Enum})

-----------------------------------------------------------------------------
(* Properties of jsonLineAndChar, over the last call made *)

Located == position # NoPosition
InRange == 0 <= position.offset /\ position.offset <= Len(position.input)

\* The 1-based places of the line feeds among the first n bytes of input.
LineFeeds(input, n) == {i \in 1..n : Char(input, i) = "\n"}
LastOf(S) == IF S = {} THEN 0 ELSE CHOOSE i \in S : \A j \in S : j <= i

\* The position of the byte at a 0-based offset: its line counts the line
\* feeds before it, its column counts from the byte after the last of them.
LineOf(input, offset) == 1 + Cardinality(LineFeeds(input, offset))
ColumnOf(input, offset) == offset + 1 - LastOf(LineFeeds(input, offset))

\* C12: an offset from 0 to len(input) yields line = 1 + the line feeds
\* before the offset and character = the 1-based column of the offset in that
\* line, a result that the bytes after the offset cannot change; any other
\* offset yields an error and no position.
C12_LineAndChar ==
    Located =>
        IF InRange
        THEN /\ position.err = ""
             /\ position.line = LineOf(position.input, position.offset)
             /\ position.character = ColumnOf(position.input, position.offset)
        ELSE position.err # "" /\ position.line = 0 /\ position.character = 0

\* What the loop computes: it reads the bytes up to and including the one at
\* the offset (all of them when the offset is len(input)), counts a line feed
\* among them as the first character of the line it starts, and so depends on
\* whether a byte follows the offset.
BytesRead == IF position.offset < Len(position.input) THEN position.offset + 1
             ELSE Len(position.input)
C12_BytesRead ==
    Located =>
        IF InRange
        THEN LET lfs == LineFeeds(position.input, BytesRead) IN
             /\ position.err = ""
             /\ position.line = 1 + Cardinality(lfs)
             /\ position.character =
                    IF lfs = {} THEN BytesRead ELSE BytesRead - LastOf(lfs) + 1
        ELSE position.err # "" /\ position.line = 0 /\ position.character = 0

\* The byte after a line feed is reported as character 2 of its line.
C12_AfterLineFeed ==
    /\ position.input = "a\nb" /\ position.offset = 2
    /\ position.line = 2 /\ position.character = 2

-----------------------------------------------------------------------------
(* Properties of the engine calls made for one request *)

EngineFailed == Len(calls) >= 1 /\ calls[Len(calls)].ret.err # ""
ErrorResponse(msg) ==
    w.code \in {ErrorInvalidRequest, Error} /\ w.message = msg /\ w.body = NoBody
AbortDone == AbortRequest /\ EngineFailed /\ calls[Len(calls)].ret.err = ErrAborted

\* C13: serving one request invokes the engine at most once, and when that
\* invocation returns an error the handler calls nothing further and answers
\* with an error whose message is the engine's error text unchanged.
C13_NoRetries ==
    /\ Len(calls) <= 1
    /\ \A i \in DOMAIN calls :
          calls[i].ret.err # "" => i = Len(calls) /\ ErrorResponse(calls[i].ret.err)

\* C13 as the handlers have it: the same, except that an abort answered by
\* the engine with the "transaction aborted" error has succeeded and gets the
\* {Success, "Done"} envelope and no error.
C13_NoRetriesButAbortDone ==
    /\ Len(calls) <= 1
    /\ \A i \in DOMAIN calls :
          calls[i].ret.err # "" =>
              /\ i = Len(calls)
              /\ IF AbortDone
                 THEN w.code = "" /\ w.body = [code |-> Success, message |-> "Done",
                                               kind |-> "abort"]
                 ELSE ErrorResponse(calls[i].ret.err)

\* A commit that the engine refused, answered with the engine's own text.
C13_Witness ==
    /\ Served("commit") /\ ~AbortRequest
    /\ Forwarded("CommitOverNetwork") /\ EngineFailed
    /\ ErrorResponse(calls[1].ret.err)

====
